---- MODULE Spec2Model ----
(***************************************************************************)
(* Model of tsp-app.py: the degree-2 TSP formulation, the lazy-constraint   *)
(* callback subtourelim, the cycle decomposition subtour, and the tour      *)
(* extraction that follows m.optimize.                                      *)
(***************************************************************************)
EXTENDS Integers, Sequences, FiniteSets, Bags, TLC

\* Smallest value of the slider that sets n (line 70).
NMin == 5
\* Largest number of destinations the model explores.
MaxN == 6

\* Widest gap between the two groups of points of a layout, in half widths
\* of the square the points are drawn from.
MaxGap == 1
\* Largest number of lazy constraints of a solve the model follows.
MaxCuts == 2

VARIABLES
    n,          \* the number of destinations
    points,     \* the destinations
    dist,       \* the distance of each pair (i, j), j < i
    pc,         \* where the script is
    cuts,       \* the lazy constraints the model holds
    subtours,   \* m._subtours
    sol,        \* the assignment cbGetSolution returned last
    best,       \* the solver's incumbent, m.getAttr('x') once solved
    objbnd,     \* the solver's best bound
    summary,    \* what m._summary shows
    plot,       \* the polylines m._plot shows
    selected,   \* line 102
    tour,       \* line 104
    tours,      \* line 104
    where,      \* the event code of the latest call of subtourelim
    ctx         \* the calls of subtourelim in progress, per worker context

vars == <<n, points, dist, pc, cuts, subtours, sol, best, objbnd, summary,
          plot, selected, tour, tours, where, ctx>>

\* The values of what the program has not assigned yet: no incumbent, an
\* empty st.empty() placeholder, a list not yet built.
NoSolution == {}
Empty == <<>>
\* The callback has not been called yet.
NoEvent == "none"

-----------------------------------------------------------------------------
(* Sequences as Python lists *)

\* The value of the one element of a one-element set; used to compute a
\* value once and name it.
The(S) == CHOOSE x \in S : TRUE

Range(s) == {s[k] : k \in DOMAIN s}

IsIn(x, s) == \E k \in DOMAIN s : s[k] = x

\* list.remove(x): drops the first occurrence of x.
ListRemove(s, x) ==
    LET k == CHOOSE k \in DOMAIN s : s[k] = x /\ \A m \in 1..(k - 1) : s[m] # x
    IN  SubSeq(s, 1, k - 1) \o SubSeq(s, k + 1, Len(s))

\* list(range(k))
ListRange(k) == [i \in 1..k |-> i - 1]

Nodes(k) == 0..(k - 1)

-----------------------------------------------------------------------------
(* Formulation: variable keys *)

\* dist.keys(): (i, j) for i in range(n) for j in range(i), in that order.
RECURSIVE DistKeys(_)
DistKeys(k) ==
    IF k <= 1 THEN <<>>
    ELSE DistKeys(k - 1) \o [j \in 1..(k - 1) |-> <<k - 1, j - 1>>]

\* vars.keys() with the mirroring loop of lines 90-91 left out.
VarKeysUnmirrored(k) == DistKeys(k)

\* vars.keys() after the mirroring loop: the keys of dist, then for each of
\* them, in the same order, the swapped key.
VarKeys(k) ==
    The({d \o [x \in 1..Len(d) |-> <<d[x][2], d[x][1]>>] : d \in {DistKeys(k)}})

\* The variable a key resolves to: vars[j, i] is the object vars[i, j], so
\* a variable is identified by its unordered pair.
Var(i, j) == {i, j}

\* m.addVars(dist.keys(), ...) (line 87): the dictionary vars, one new
\* variable per key of dist.
AddVars(k) == [key \in Range(DistKeys(k)) |-> Var(key[1], key[2])]

\* for i, j in list(vars.keys()): vars[j, i] = vars[i, j] (lines 90-91), on
\* the dictionary d and the keys still to visit.
RECURSIVE MirrorLoop(_, _)
MirrorLoop(d, keys) ==
    IF keys = <<>> THEN d
    ELSE LET i == Head(keys)[1]
             j == Head(keys)[2]
         IN  MirrorLoop([key \in DOMAIN d \cup {<<j, i>>} |->
                            IF key = <<j, i>> THEN d[<<i, j>>] ELSE d[key]],
                        Tail(keys))

\* The dictionary vars once mirrored (line 97: m._vars).
VarsDict(k) == MirrorLoop(AddVars(k), DistKeys(k))

\* The terms of vars.sum(i, '*') (line 94): the variable of each key of
\* vars whose first entry is i, in the order of the keys.
SumTerms(k, i) ==
    LET keys == SelectSeq(VarKeys(k), LAMBDA key : key[1] = i)
    IN  [x \in DOMAIN keys |-> VarsDict(k)[keys[x]]]

\* tuplelist((i, j) for i, j in keys if vals[i, j] > 0.5), for the assignment
\* that sets exactly the variables in sel to 1.
Selected(k, sel) ==
    SelectSeq(VarKeys(k), LAMBDA key : Var(key[1], key[2]) \in sel)

\* Select with the pattern arguments swapped: edges.select('*', current).
SelectSwapped(edges, current) == SelectSeq(edges, LAMBDA e : e[2] = current)

\* edges.select(current, '*')
Select(edges, current) == SelectSeq(edges, LAMBDA e : e[1] = current)

-----------------------------------------------------------------------------
(* subtour *)

\* [j for i, j in edges.select(current, '*') if j in unvisited]
Neighbors(edges, current, unvisited) ==
    LET inc == Select(edges, current)
        js  == [x \in 1..Len(inc) |-> inc[x][2]]
    IN  SelectSeq(js, LAMBDA j : IsIn(j, unvisited))

\* One pass of the body of the inner while loop (lines 59-62), on the loop
\* variables w = <<neighbors, thiscycle, unvisited>>.
WalkBody(edges, w) ==
    The({<<Neighbors(edges, w[1][1], unv), Append(w[2], w[1][1]), unv>> :
            unv \in {ListRemove(w[3], w[1][1])}})

\* The inner while loop (lines 58-62): the loop variables at its exit.
RECURSIVE Walk(_, _)
Walk(edges, w) ==
    IF w[1] = <<>> THEN w
    ELSE The({Walk(edges, w2) : w2 \in {WalkBody(edges, w)}})

\* One pass of the body of the outer while loop with cycles.append(thiscycle)
\* indented into the if.
SubtourBodyAppendInIf(edges, v) ==
    The({IF Len(v[2]) > Len(w[2])
         THEN <<w[3], w[2], Append(v[3], w[2])>>
         ELSE <<w[3], v[2], v[3]>> :
            w \in {Walk(edges, <<v[1], <<>>, v[1]>>)}})

\* One pass of the body of the outer while loop with the test of line 64 as
\* len(cycle) >= len(thiscycle): of the shortest cycles the last one is kept.
SubtourBodyLastShortest(edges, v) ==
    The({<<w[3], IF Len(v[2]) >= Len(w[2]) THEN w[2] ELSE v[2], Append(v[3], w[2])>> :
            w \in {Walk(edges, <<v[1], <<>>, v[1]>>)}})

\* One pass of the body of the outer while loop (lines 56-66), on the loop
\* variables v = <<unvisited, cycle, cycles>>: neighbors starts as the list
\* unvisited itself.
SubtourBody(edges, v) ==
    The({<<w[3], IF Len(v[2]) > Len(w[2]) THEN w[2] ELSE v[2], Append(v[3], w[2])>> :
            w \in {Walk(edges, <<v[1], <<>>, v[1]>>)}})

\* The outer while loop (lines 55-66): the loop variables at its exit.
RECURSIVE SubtourLoop(_, _)
SubtourLoop(edges, v) ==
    IF v[1] = <<>> THEN v
    ELSE The({SubtourLoop(edges, v2) : v2 \in {SubtourBody(edges, v)}})

\* subtour(edges) (lines 50-68): returns <<cycle, cycles>>.
subtour(edges, k) ==
    The({<<v[2], v[3]>> :
            v \in {SubtourLoop(e, <<ListRange(k), ListRange(k + 1), <<>>>>) :
                      e \in {edges}}})

-----------------------------------------------------------------------------
(* Edge selections *)

\* One variable per unordered pair of distinct nodes (line 87).
AllVars(k) == {Var(i, j) : <<i, j>> \in {q \in Nodes(k) \X Nodes(k) : q[1] # q[2]}}

\* vars.sum(i, '*') evaluated on the assignment sel: select(i, '*') yields
\* each key (i, j) once, so each incident variable is counted once.
Degree(sel, i) == Cardinality({e \in sel : i \in e})

\* The constraints of line 94.
IsDeg2(k, sel) == \A i \in Nodes(k) : Degree(sel, i) = 2

SetMin(S) == CHOOSE m \in S : \A x \in S : m <= x

RECURSIVE Perms(_)
Perms(S) ==
    IF S = {} THEN {<<>>}
    ELSE UNION {{<<x>> \o p : p \in Perms(S \ {x})} : x \in S}

\* The variables set by a closed walk through the nodes of seq.
CycleVars(seq) ==
    {Var(seq[x], seq[(x % Len(seq)) + 1]) : x \in 1..Len(seq)}

\* Every cycle through all the nodes of S (at least 3 of them).
CyclesOn(S) ==
    LET m == SetMin(S)
    IN  {CycleVars(<<m>> \o p) : p \in Perms(S \ {m})}

\* Every assignment over the node set S that gives each node degree 2: the
\* cycle through the least node, and such an assignment on the other nodes.
RECURSIVE Deg2On(_)
Deg2On(S) ==
    IF S = {} THEN {{}}
    ELSE LET m == SetMin(S)
             T == {t \in SUBSET (S \ {m}) : Cardinality(t) >= 2}
         IN  UNION {{c \cup r : c \in CyclesOn({m} \cup t),
                                r \in Deg2On(S \ ({m} \cup t))} : t \in T}

\* The integer-feasible assignments of the formulation, per n.
Deg2Table == [k \in NMin..MaxN |-> Deg2On(Nodes(k))]

\* The single cycles through all n nodes, per n.
HamTable == [k \in NMin..MaxN |-> CyclesOn(Nodes(k))]

\* A single cycle through all n nodes.
IsHamiltonian(k, sel) == sel \in HamTable[k]

-----------------------------------------------------------------------------
(* Points, distances, objective *)

\* Coordinates are drawn by random.randint(0, 100) (line 73); distances are
\* kept in tenths of a km, rounded down.
Scale == 10

\* Largest coordinate random.randint(0, 100) returns (line 73).
CoordMax == 100

\* Vertical spacing of the point layouts the model draws from.
Spacing == CoordMax \div 10

RECURSIVE SqrtSearch(_, _, _)
SqrtSearch(x, lo, hi) ==
    IF lo = hi THEN lo
    ELSE LET mid == (lo + hi + 1) \div 2
         IN  IF mid * mid <= x THEN SqrtSearch(x, mid, hi)
             ELSE SqrtSearch(x, lo, mid - 1)

\* floor(sqrt(x)), for x up to the square of the longest distance.
ISqrt(x) == SqrtSearch(x, 0, 2 * Scale * CoordMax)

\* math.sqrt(sum((p[k] - q[k]) ** 2 for k in range(2))), in 1/Scale km.
Euclid(p, q) ==
    ISqrt(Scale * Scale * ((p[1] - q[1]) * (p[1] - q[1])
                           + (p[2] - q[2]) * (p[2] - q[2])))

\* The layouts the model draws points from: node i lies at height
\* Spacing * i; the nodes of the upper half lie g half widths to the right
\* of the others (g = 0: all points on one line).
Layout(k, g) ==
    [i \in Nodes(k) |->
        <<IF 2 * i >= k THEN g * (CoordMax \div 2) ELSE 0, Spacing * i>>]

PointSets(k) == {Layout(k, g) : g \in 0..MaxGap}

\* dist = {(i, j): ... for i in range(n) for j in range(i)} (lines 76-77).
DistOf(k, pts) ==
    [key \in Range(DistKeys(k)) |-> Euclid(pts[key[1]], pts[key[2]])]

\* The keys of dist, in the order of dist.keys(), per n.
KeyTable == [k \in 1..(MaxN + 1) |-> DistKeys(k)]

\* The keys of the dictionary d.
KeysOf(d) == KeyTable[The({k \in DOMAIN KeyTable : Range(KeyTable[k]) = DOMAIN d})]

\* The objective, obj=dist on the keys (i, j), j < i (line 87), summed key by
\* key; a = <<distances, assignment, keys left, sum so far>>.
RECURSIVE SumCoeff(_)
SumCoeff(a) ==
    IF a[3] = <<>> THEN a[4]
    ELSE The({SumCoeff(b) :
                b \in {<<a[1], a[2], Tail(a[3]),
                         a[4] + (IF Var(a[3][1][1], a[3][1][2]) \in a[2]
                                 THEN a[1][a[3][1]] ELSE 0)>>}})

\* The objective value of the assignment sel.
Cost(d, sel) == SumCoeff(<<d, sel, KeysOf(d), 0>>)

\* Python's round() of a value held in 1/Scale units: to the nearest
\* integer, halves to the even one.
Round(x) ==
    LET q == x \div Scale
        r == x % Scale
    IN  IF 2 * r < Scale THEN q
        ELSE IF 2 * r > Scale THEN q + 1
        ELSE IF q % 2 = 0 THEN q ELSE q + 1

Max(a, b) == IF a >= b THEN a ELSE b

-----------------------------------------------------------------------------
(* Lazy constraints *)

\* itertools.combinations(tour, 2): one pair per pair of positions a < b.
PositionPairs(t) == {q \in (DOMAIN t) \X (DOMAIN t) : q[1] < q[2]}

Combinations2(t) == [q \in PositionPairs(t) |-> <<t[q[1]], t[q[2]]>>]

\* The right-hand side one too small: len(tour) - 2.
CutRhsTooSmall(t) == Len(t) - 2

\* The right-hand side one too large: len(tour).
CutRhsTooLarge(t) == Len(t)

\* The right-hand side of the constraint of line 24.
CutRhs(t) == Len(t) - 1

\* The constraint of line 24 built after the loop of lines 37-38 has
\* appended the closing node to the list tour.
LazyCutAfterClosing(t) ==
    [tour |-> Append(t, t[1]), rhs |-> CutRhs(Append(t, t[1]))]

\* quicksum(model._vars[i, j] for i, j in itertools.combinations(tour, 2))
\*     <= len(tour) - 1
LazyCut(t) == [tour |-> t, rhs |-> CutRhs(t)]

\* The left-hand side of a constraint under the assignment sel: one term per
\* position pair of the node list.
CutLhs(c, sel) ==
    LET terms == Combinations2(c.tour)
    IN  Cardinality({q \in DOMAIN terms : Var(terms[q][1], terms[q][2]) \in sel})

Satisfies(sel, c) == CutLhs(c, sel) <= c.rhs

SatisfiesAll(sel, cs) == \A c \in BagToSet(cs) : Satisfies(sel, c)

\* The assignments the solver may still return: degree 2 at every node and
\* every lazy constraint added so far.
Feasible(k, cs) == {s \in Deg2Table[k] : SatisfiesAll(s, cs)}

-----------------------------------------------------------------------------
(* The program *)

SetMinimum(S) == The({CHOOSE c \in T : \A x \in T : c <= x : T \in {S}})

\* The solver's best bound: the optimum over the assignments that satisfy
\* the degree constraints and the lazy constraints cs.
ObjBound(k, d, cs) ==
    SetMinimum({SumCoeff(<<d, s, KeyTable[k], 0>>) : s \in Feasible(k, cs)})

\* Lines 70-84: n, the points, the distances, the fresh model.
Init ==
    /\ n \in NMin..MaxN
    /\ points \in PointSets(n)
    /\ dist = DistOf(n, points)
    /\ pc = "optimize"
    /\ cuts = EmptyBag
    /\ subtours = 0
    /\ sol = NoSolution
    /\ best = NoSolution
    /\ objbnd = ObjBound(n, dist, cuts)
    /\ summary = Empty
    /\ plot = Empty
    /\ selected = Empty
    /\ tour = Empty
    /\ tours = Empty
    /\ where = NoEvent
    /\ ctx = Empty

\* The test of line 22 against half of n: if len(tour) < n / 2.
NeedsCutHalf(t, k) == 2 * Len(t) < k

\* if len(tour) < n (line 22)
NeedsCut(t, k) == Len(t) < k

\* for tour in tours: tour.append(tour[0]) (lines 37-38), as drawn.
ClosedTours(ts) == [x \in DOMAIN ts |-> Append(ts[x], ts[x][1])]

\* The summary with the incumbent's objective in the place of the best
\* bound: bound = max(0, round(MIPSOL_OBJ)) at line 27.
SummaryTextObjAsBound(count, bnd, obj, ts) ==
    [subtours       |-> count,
     bound          |-> Max(0, Round(obj)),
     current_length |-> Round(obj),
     ntours         |-> Len(ts)]

\* The text written to the summary placeholder (lines 28-31 and 112-115);
\* the placeholder holds its latest text only.
SummaryText(count, bnd, obj, ts) ==
    [subtours       |-> count,
     bound          |-> Max(0, Round(bnd)),
     current_length |-> Round(obj),
     ntours         |-> Len(ts)]

\* subtourelim with lines 22-24 run for every cycle of tours, not for the
\* shortest one only.
subtourelimEveryCycle(s, obj, bnd) ==
    \E r \in {subtour(Selected(n, s), n)} :
        LET ts == r[2]
            cs == {x \in DOMAIN ts : NeedsCut(ts[x], n)}
        IN  /\ subtours' = subtours + Cardinality(cs)
            /\ cuts' = cuts (+) SetToBag({LazyCut(ts[x]) : x \in cs})
            /\ summary' = <<SummaryText(subtours + Cardinality(cs), bnd, obj, ts)>>
            /\ plot' = ClosedTours(ts)

\* subtourelim with line 23 outside the if of line 22: the counter goes up at
\* every call.
subtourelimCountsEveryCall(s, obj, bnd) ==
    \E r \in {subtour(Selected(n, s), n)} :
        /\ subtours' = subtours + 1
        /\ cuts' = IF NeedsCut(r[1], n) THEN cuts (+) SetToBag({LazyCut(r[1])})
                   ELSE cuts
        /\ summary' = <<SummaryText(subtours', bnd, obj, r[2])>>
        /\ plot' = ClosedTours(r[2])

\* subtourelim(model, GRB.Callback.MIPSOL) (lines 16-47): s is what
\* cbGetSolution returns, obj is MIPSOL_OBJ and bnd is MIPSOL_OBJBND;
\* r is <<tour, tours>> of line 20.
subtourelim(s, obj, bnd) ==
    \E r \in {subtour(Selected(n, s), n)} :
        /\ subtours' = IF NeedsCut(r[1], n) THEN subtours + 1 ELSE subtours
        /\ cuts' = IF NeedsCut(r[1], n) THEN cuts (+) SetToBag({LazyCut(r[1])})
                   ELSE cuts
        /\ summary' = <<SummaryText(subtours', bnd, obj, r[2])>>
        /\ plot' = ClosedTours(r[2])

\* subtourelim with the test of line 16 left out: the body runs at every
\* event.
CallbackAtEveryEvent(w, s, obj, bnd) == subtourelim(s, obj, bnd)

\* subtourelim(model, where) (lines 15-47): the body runs only when where is
\* GRB.Callback.MIPSOL; at any other event the function returns at once.
Callback(w, s, obj, bnd) ==
    IF w = "MIPSOL" THEN subtourelim(s, obj, bnd)
    ELSE UNCHANGED <<subtours, cuts, summary, plot>>

\* The event codes other than MIPSOL the solver calls the callback with
\* while it searches.
OtherEvents == {"MIP", "MIPNODE"}

\* The solve without m.Params.lazyConstraints = 1 (line 98) taking effect:
\* the solver offers incumbents that need not satisfy the lazy constraints
\* the callback has added.
MIPSOLIgnoresCuts ==
    /\ pc = "optimize"
    /\ subtours < MaxCuts
    /\ \E s \in Deg2Table[n] :
          /\ sol' = s
          /\ where' = "MIPSOL"
          /\ best # NoSolution => Cost(dist, s) < Cost(dist, best)
          /\ Callback(where', s, Cost(dist, s), objbnd)
          /\ best' = IF SatisfiesAll(s, cuts') THEN s ELSE best
          /\ objbnd' = IF cuts' = cuts THEN objbnd ELSE ObjBound(n, dist, cuts')
    /\ UNCHANGED <<n, points, dist, pc, selected, tour, tours, ctx>>

\* The solver finds a new incumbent: an assignment that satisfies the degree
\* constraints and every lazy constraint, and improves on the incumbent it
\* holds. It calls the callback, and keeps the assignment unless a lazy
\* constraint added by the callback cuts it off. Its best bound is the
\* optimum over the assignments that satisfy the constraints of the model.
MIPSOL ==
    /\ pc = "optimize"
    /\ subtours < MaxCuts
    /\ \E s \in Deg2Table[n] :
          /\ sol' = s
          /\ where' = "MIPSOL"
          /\ SatisfiesAll(s, cuts)
          /\ best # NoSolution => Cost(dist, s) < Cost(dist, best)
          /\ Callback(where', s, Cost(dist, s), objbnd)
          /\ best' = IF SatisfiesAll(s, cuts') THEN s ELSE best
          /\ objbnd' = IF cuts' = cuts THEN objbnd ELSE ObjBound(n, dist, cuts')
    /\ UNCHANGED <<n, points, dist, pc, selected, tour, tours, ctx>>

\* The solver calls the callback at an event other than a new incumbent
\* (a node of the search, a message, ...); no solution is read there.
OtherEvent ==
    /\ pc = "optimize"
    /\ \E w \in OtherEvents :
          /\ where' = w
          /\ Callback(w, sol, 0, objbnd)
    /\ UNCHANGED <<n, points, dist, pc, sol, best, objbnd, selected, tour,
                   tours, ctx>>

\* m.optimize returns (line 99): the incumbent is proved optimal for the
\* constraints the model holds, lazy constraints included; with no feasible
\* assignment left the model is infeasible and line 101 raises.
Optimized ==
    /\ pc = "optimize"
    /\ IF best = NoSolution THEN Feasible(n, cuts) = {}
       ELSE \A s \in Feasible(n, cuts) : Cost(dist, best) <= Cost(dist, s)
    /\ pc' = IF best = NoSolution THEN "error" ELSE "extract"
    /\ UNCHANGED <<where, ctx>>
    /\ UNCHANGED <<n, points, dist, cuts, subtours, sol, best, objbnd, summary,
                   plot, selected, tour, tours>>

\* Lines 101-104: read the final assignment and decompose it.
Decompose ==
    /\ pc = "extract"
    /\ selected' = Selected(n, best)
    /\ \E r \in {subtour(Selected(n, best), n)} :
          tour' = r[1] /\ tours' = r[2]
    /\ pc' = "assert"
    /\ UNCHANGED <<where, ctx>>
    /\ UNCHANGED <<n, points, dist, cuts, subtours, sol, best, objbnd, summary,
                   plot>>

\* Lines 105-106 with tour.append(tour[-1]) for tour.append(tour[0]).
AssertTourAppendLast ==
    /\ pc = "assert"
    /\ IF Len(tour) = n
       THEN /\ tour' = Append(tour, tour[Len(tour)])
            /\ tours' = <<tour'>>
            /\ pc' = "report"
       ELSE /\ pc' = "assert_failed"
            /\ UNCHANGED <<tour, tours>>
    /\ UNCHANGED <<where, ctx>>
    /\ UNCHANGED <<n, points, dist, cuts, subtours, sol, best, objbnd, summary,
                   plot, selected>>

\* Lines 105-106: assert len(tour) == n, then tour.append(tour[0]); the list
\* tour is the list tours[0], which the append extends too.
AssertTour ==
    /\ pc = "assert"
    /\ IF Len(tour) = n
       THEN /\ tour' = Append(tour, tour[1])
            /\ tours' = <<tour'>>
            /\ pc' = "report"
       ELSE /\ pc' = "assert_failed"
            /\ UNCHANGED <<tour, tours>>
    /\ UNCHANGED <<where, ctx>>
    /\ UNCHANGED <<n, points, dist, cuts, subtours, sol, best, objbnd, summary,
                   plot, selected>>

\* Lines 109-128: the final summary and plot.
FinalSummary ==
    /\ pc = "report"
    /\ summary' = <<SummaryText(subtours, Cost(dist, best), Cost(dist, best), tours)>>
    /\ plot' = <<tour>>
    /\ pc' = "done"
    /\ UNCHANGED <<where, ctx>>
    /\ UNCHANGED <<n, points, dist, cuts, subtours, sol, best, objbnd, selected,
                   tour, tours>>

Next == MIPSOL \/ Optimized \/ Decompose \/ AssertTour \/ FinalSummary

Spec == Init /\ [][Next]_vars

\* m.optimize is one blocking call (line 99): the solver goes on until it
\* returns, and the script then runs to its end.
FairSpec == Spec /\ WF_vars(Next)

\* The script with every call of the callback in view, the calls at events
\* other than a new incumbent included.
NextEvents == Next \/ OtherEvent

SpecEvents == Init /\ [][NextEvents]_vars

-----------------------------------------------------------------------------
(* A reporting sink that fails *)

\* The calls of the callback that write to a sink.
SinkCalls == {"summary", "plot"}

\* subtourelim (lines 16-47) when the sink call f raises: lines 17-24 have
\* run; the summary is written unless it is the call that raises (line 28),
\* the plot (line 47) is not; nothing catches the exception in the function.
subtourelimRaises(s, obj, bnd, f) ==
    \E r \in {subtour(Selected(n, s), n)} :
        /\ subtours' = IF NeedsCut(r[1], n) THEN subtours + 1 ELSE subtours
        /\ cuts' = IF NeedsCut(r[1], n) THEN cuts (+) SetToBag({LazyCut(r[1])})
                   ELSE cuts
        /\ summary' = IF f = "summary" THEN summary
                      ELSE <<SummaryText(subtours', bnd, obj, r[2])>>
        /\ plot' = plot

\* The solver finds a new incumbent and a sink call of the callback raises.
\* The exception leaves subtourelim; the solver's library ends the
\* optimization and raises it from m.optimize (line 99), where nothing
\* catches it either, so the script stops there.
MIPSOLSinkRaises ==
    /\ pc = "optimize"
    /\ subtours < MaxCuts
    /\ \E s \in Deg2Table[n], f \in SinkCalls :
          /\ sol' = s
          /\ where' = "MIPSOL"
          /\ SatisfiesAll(s, cuts)
          /\ best # NoSolution => Cost(dist, s) < Cost(dist, best)
          /\ subtourelimRaises(s, Cost(dist, s), objbnd, f)
          /\ best' = IF SatisfiesAll(s, cuts') THEN s ELSE best
          /\ objbnd' = IF cuts' = cuts THEN objbnd ELSE ObjBound(n, dist, cuts')
          /\ pc' = "raised"
    /\ UNCHANGED <<n, points, dist, selected, tour, tours, ctx>>

NextSink == Next \/ MIPSOLSinkRaises

SpecSink == Init /\ [][NextSink]_vars

-----------------------------------------------------------------------------
(* The callback called from several worker contexts *)

\* Largest number of worker contexts of the solver that call the callback.
MaxWorkers == 2

Workers == 1..MaxWorkers

\* A worker context that is not in the callback: at is the line the call
\* stands before, s the solution it read, r what subtour returned to it, and
\* tmp the value of model._subtours it has read at line 23.
IdleCall == [at |-> "idle", s |-> NoSolution, r |-> <<Empty, Empty>>, tmp |-> 0]

\* Lines 16-22 in worker w: the solver hands it an incumbent; reading the
\* solution, decomposing it and testing the length touch no shared state.
CallEnter(w) ==
    /\ pc = "optimize"
    /\ ctx[w].at = "idle"
    /\ \E s \in Deg2Table[n] :
          /\ SatisfiesAll(s, cuts)
          /\ \E r \in {subtour(Selected(n, s), n)} :
                ctx' = [ctx EXCEPT ![w] =
                           [at  |-> IF NeedsCut(r[1], n) THEN "load" ELSE "report",
                            s   |-> s,
                            r   |-> r,
                            tmp |-> 0]]
    /\ UNCHANGED <<n, points, dist, pc, cuts, subtours, sol, best, objbnd,
                   summary, plot, selected, tour, tours, where>>

\* Line 23, first half: model._subtours += 1 reads the attribute.
CallLoad(w) ==
    /\ ctx[w].at = "load"
    /\ ctx' = [ctx EXCEPT ![w].tmp = subtours, ![w].at = "store"]
    /\ UNCHANGED <<n, points, dist, pc, cuts, subtours, sol, best, objbnd,
                   summary, plot, selected, tour, tours, where>>

\* Line 23, second half: the sum is stored into the attribute.
CallStore(w) ==
    /\ ctx[w].at = "store"
    /\ subtours' = ctx[w].tmp + 1
    /\ ctx' = [ctx EXCEPT ![w].at = "lazy"]
    /\ UNCHANGED <<n, points, dist, pc, cuts, sol, best, objbnd, summary, plot,
                   selected, tour, tours, where>>

\* Line 24: model.cbLazy(...)
CallLazy(w) ==
    /\ ctx[w].at = "lazy"
    /\ cuts' = cuts (+) SetToBag({LazyCut(ctx[w].r[1])})
    /\ ctx' = [ctx EXCEPT ![w].at = "report"]
    /\ UNCHANGED <<n, points, dist, pc, subtours, sol, best, objbnd, summary,
                   plot, selected, tour, tours, where>>

\* Lines 26-31: the summary, with model._subtours as it is now.
CallReport(w) ==
    /\ ctx[w].at = "report"
    /\ summary' = <<SummaryText(subtours, objbnd, Cost(dist, ctx[w].s), ctx[w].r[2])>>
    /\ ctx' = [ctx EXCEPT ![w].at = "plot"]
    /\ UNCHANGED <<n, points, dist, pc, cuts, subtours, sol, best, objbnd, plot,
                   selected, tour, tours, where>>

\* Lines 33-47: the plot; the call returns.
CallPlot(w) ==
    /\ ctx[w].at = "plot"
    /\ plot' = ClosedTours(ctx[w].r[2])
    /\ ctx' = [ctx EXCEPT ![w].at = "returned"]
    /\ UNCHANGED <<n, points, dist, pc, cuts, subtours, sol, best, objbnd,
                   summary, selected, tour, tours, where>>

\* Lines 70-99 with a solver whose workers each call the callback once.
InitPar ==
    /\ n \in NMin..MaxN
    /\ points \in PointSets(n)
    /\ dist = DistOf(n, points)
    /\ pc = "optimize"
    /\ cuts = EmptyBag
    /\ subtours = 0
    /\ sol = NoSolution
    /\ best = NoSolution
    /\ objbnd = ObjBound(n, dist, cuts)
    /\ summary = Empty
    /\ plot = Empty
    /\ selected = Empty
    /\ tour = Empty
    /\ tours = Empty
    /\ where = "MIPSOL"
    /\ ctx = [w \in Workers |-> IdleCall]

NextPar ==
    \E w \in Workers :
        \/ CallEnter(w)
        \/ CallLoad(w)
        \/ CallStore(w)
        \/ CallLazy(w)
        \/ CallReport(w)
        \/ CallPlot(w)

SpecPar == InitPar /\ [][NextPar]_vars

-----------------------------------------------------------------------------
(* Tour extraction on any final assignment *)

\* Largest number of variables by which a final assignment differs from an
\* assignment that satisfies the degree constraints.
MaxToggle == 2

Toggle(d, t) == (d \ t) \cup (t \ d)

\* The final assignments the extraction is run on: those that satisfy the
\* degree constraints, and those with up to MaxToggle variables flipped.
Assignments(k) ==
    {Toggle(d, t) : d \in Deg2Table[k],
                    t \in {t \in SUBSET AllVars(k) : Cardinality(t) <= MaxToggle}}

\* The state at line 101 for a solver that returned the assignment best.
InitSub ==
    /\ n \in NMin..MaxN
    /\ points = Layout(n, 0)
    /\ dist = DistOf(n, points)
    /\ pc = "extract"
    /\ cuts = EmptyBag
    /\ subtours = 0
    /\ sol = NoSolution
    /\ best \in Assignments(n)
    /\ objbnd = Cost(dist, best)
    /\ summary = Empty
    /\ plot = Empty
    /\ selected = Empty
    /\ tour = Empty
    /\ tours = Empty
    /\ where = NoEvent
    /\ ctx = Empty

NextSub == Decompose \/ AssertTour \/ FinalSummary

SpecSub == InitSub /\ [][NextSub]_vars

-----------------------------------------------------------------------------
(* What the claims speak of *)

\* The assignment a tuplelist of selected keys stands for.
VarsOf(edges) == {Var(edges[x][1], edges[x][2]) : x \in DOMAIN edges}

\* The nodes joined to a node of S by selected edges, S included.
RECURSIVE Reach(_, _, _)
Reach(k, sel, S) ==
    The({IF S2 = S THEN S ELSE Reach(k, sel, S2) :
            S2 \in {S \cup {j \in Nodes(k) : \E i \in S : i # j /\ Var(i, j) \in sel}}})

\* The connected component of node i in the selected graph.
Component(k, sel, i) == Reach(k, sel, {i})

Components(k, sel) == {Component(k, sel, i) : i \in Nodes(k)}

\* seq lists distinct nodes, each joined to the next by a selected edge and
\* the last joined to the first.
IsClosedCycle(seq, sel) ==
    /\ Len(seq) >= 3
    /\ \A a, b \in DOMAIN seq : a # b => seq[a] # seq[b]
    /\ \A a \in DOMAIN seq : Var(seq[a], seq[(a % Len(seq)) + 1]) \in sel

RECURSIVE SumLen(_)
SumLen(ts) == IF ts = <<>> THEN 0 ELSE Len(Head(ts)) + SumLen(Tail(ts))

\* The places <<cycle, position>> of a list of cycles that hold node i.
Places(ts, i) ==
    {q \in {<<c, x>> : c \in DOMAIN ts, x \in 1..n} :
        q[2] \in DOMAIN ts[q[1]] /\ ts[q[1]][q[2]] = i}

-----------------------------------------------------------------------------
(* Claims about subtour and the tour extraction, under SpecSub *)

\* C2: for an edge selection in which every node has degree exactly 2, the
\* cycles subtour returns partition 0..n-1: every node is at exactly one
\* place of exactly one cycle, and the cycle lengths sum to n.
C2_Partition ==
    (pc = "assert" /\ IsDeg2(n, best)) =>
        /\ \A i \in Nodes(n) : Cardinality(Places(tours, i)) = 1
        /\ \A c \in DOMAIN tours : Range(tours[c]) \subseteq Nodes(n)
        /\ SumLen(tours) = n

\* C2's case: subtour has decomposed a degree-2 selection of two cycles.
C2_Witness ==
    pc = "assert" /\ IsDeg2(n, best) /\ Len(tours) = 2

\* C3: for an edge selection in which every node has degree exactly 2, every
\* cycle subtour returns is a closed cycle of the selection and covers
\* exactly one connected component of the selected graph.
C3_ClosedCycles ==
    (pc = "assert" /\ IsDeg2(n, best)) =>
        \A c \in DOMAIN tours :
            /\ IsClosedCycle(tours[c], best)
            /\ Range(tours[c]) = Component(n, best, tours[c][1])

\* C3's case: a degree-2 selection whose graph has two components, decomposed.
C3_Witness ==
    /\ pc = "assert"
    /\ IsDeg2(n, best)
    /\ Cardinality(Components(n, best)) = 2
    /\ Len(tours) >= 1

\* C8: when the final edge selection is a single Hamiltonian cycle, the
\* extraction passes the assertion and the tour has n + 1 entries, starts and
\* ends at node 0, lists every node once in its first n entries, and each
\* consecutive pair of entries is a selected edge.
C8_ClosedTour ==
    IsHamiltonian(n, best) =>
        /\ pc # "assert_failed"
        /\ pc \in {"report", "done"} =>
              /\ Len(tour) = n + 1
              /\ tour[1] = 0
              /\ tour[n + 1] = 0
              /\ {tour[x] : x \in 1..n} = Nodes(n)
              /\ \A x \in 1..n : tour[x] # tour[x + 1] /\ Var(tour[x], tour[x + 1]) \in best

\* C8's case: a Hamiltonian final selection whose tour has been closed.
C8_Witness ==
    pc = "report" /\ IsHamiltonian(n, best) /\ tour # Empty

\* C9: a final edge selection that is not the edge set of exactly one cycle
\* through all n nodes never gets past the assertion.
C9_AssertionCatchesAll ==
    pc \in {"report", "done"} => IsHamiltonian(n, best)

\* C10: subtour returns a decomposition only for an edge selection in which
\* every node has degree exactly 2, and what it returns are closed cycles.
C10_FailsFast ==
    pc = "assert" =>
        /\ IsDeg2(n, best)
        /\ \A c \in DOMAIN tours : IsClosedCycle(tours[c], best)

\* The least node of a list of nodes.
MinNode(t) == SetMin(Range(t))

\* C11: the first value subtour returns is a cycle of the returned
\* decomposition with the fewest nodes, and of the cycles that tie for
\* fewest it is the one found first, which is the one that holds the
\* smallest node index among them.
C11_ShortestFirstFound ==
    pc = "assert" =>
        \E c \in DOMAIN tours :
            /\ tour = tours[c]
            /\ \A x \in DOMAIN tours : Len(tour) <= Len(tours[x])
            /\ \A x \in DOMAIN tours :
                  (x # c /\ Len(tours[x]) = Len(tour)) =>
                      /\ c < x
                      /\ MinNode(tour) < MinNode(tours[x])

\* C11's case: subtour has decomposed a degree-2 selection whose two
\* cycles tie for fewest nodes.
C11_Witness ==
    /\ pc = "assert"
    /\ IsDeg2(n, best)
    /\ Len(tours) = 2
    /\ Len(tours[1]) = Len(tours[2])

-----------------------------------------------------------------------------
(* Claims about the cutting-plane loop, under Spec and FairSpec *)

\* A step in which the solver has called subtourelim on a new incumbent.
CallbackStep ==
    pc = "optimize" /\ pc' = "optimize" /\ where' = "MIPSOL" /\ vars' # vars

\* The lazy constraints a step has added.
AddedCuts == {c \in BagToSet(cuts') : CopiesIn(c, cuts') > CopiesIn(c, cuts)}

HamiltonianCost == SetMinimum({Cost(dist, h) : h \in HamTable[n]})

PositiveDistances == \A key \in DOMAIN dist : dist[key] > 0

\* C1: with a solver that offers only incumbents satisfying the degree
\* constraints and the cuts injected so far, and returns a minimum-cost
\* accepted incumbent, the edge selection read after m.optimize returns is a
\* single Hamiltonian cycle of minimum cost among all Hamiltonian cycles.
C1_OptimalTour ==
    /\ pc \notin {"error", "assert_failed"}
    /\ (pc \in {"assert", "report", "done"} /\ PositiveDistances) =>
          /\ IsHamiltonian(n, VarsOf(selected))
          /\ Cost(dist, VarsOf(selected)) = HamiltonianCost

\* C1's case: the solve has ended after cuts were injected.
C1_Witness ==
    pc = "assert" /\ n >= 3 /\ PositiveDistances /\ subtours >= 1

\* C4: every lazy constraint the model holds is satisfied by every edge
\* selection that is a single Hamiltonian cycle over all n nodes, and it
\* bounds the sum over all unordered node pairs of its cycle by k - 1.
C4_CutSoundness ==
    \A c \in BagToSet(cuts) :
        /\ c.rhs = Len(c.tour) - 1
        /\ {Var(q[1], q[2]) : q \in Range(Combinations2(c.tour))}
              = {v \in AllVars(n) : v \subseteq Range(c.tour)}
        /\ \A h \in HamTable[n] : Satisfies(h, c)

\* C4's case: two callbacks have injected cuts.
C4_Witness == BagCardinality(cuts) >= 2 /\ pc = "optimize"

\* C5: a cut injected for the shortest cycle C (k < n nodes) of an incumbent
\* is violated by that incumbent, which selects exactly k edges among the
\* node pairs of C, and by every degree-2 selection that contains a closed
\* cycle on the node set of C.
C5_CutSeparation ==
    [][CallbackStep =>
          \A c \in AddedCuts :
              /\ Len(c.tour) < n
              /\ Range(c.tour) \in Components(n, sol')
              /\ CutLhs(c, sol') = Len(c.tour)
              /\ ~Satisfies(sol', c)
              /\ \A s \in Deg2Table[n] :
                    (\E cyc \in CyclesOn(Range(c.tour)) : cyc \subseteq s)
                        => ~Satisfies(s, c)]_vars

\* C5's case: the last callback ran on an incumbent with a subtour and the
\* model holds the cut for that subtour.
C5_Witness ==
    /\ sol # NoSolution
    /\ ~IsHamiltonian(n, sol)
    /\ \E c \in BagToSet(cuts) : Range(c.tour) \in Components(n, sol)

\* C6: a callback on a degree-2 incumbent of two or more cycles injects
\* exactly one lazy constraint, for a shortest cycle, and adds exactly 1 to
\* the cut counter; on a single cycle through all n nodes it injects nothing
\* and leaves the counter unchanged.
C6_OneCutPerCallback ==
    [][CallbackStep =>
          IF Cardinality(Components(n, sol')) >= 2
          THEN /\ subtours' = subtours + 1
               /\ BagCardinality(cuts') = BagCardinality(cuts) + 1
               /\ Cardinality(AddedCuts) = 1
               /\ \A c \in AddedCuts :
                     /\ Range(c.tour) \in Components(n, sol')
                     /\ \A comp \in Components(n, sol') :
                           Len(c.tour) <= Cardinality(comp)
          ELSE /\ IsHamiltonian(n, sol')
               /\ subtours' = subtours
               /\ cuts' = cuts]_vars

\* C6's case: a callback has run on an incumbent of two cycles after an
\* earlier callback had injected a cut.
C6_Witness ==
    /\ sol # NoSolution
    /\ Cardinality(Components(n, sol)) >= 2
    /\ subtours >= 2

\* The feasible assignments that are not a single cycle.
SubtourFeasible == {s \in Feasible(n, cuts) : ~IsHamiltonian(n, s)}

\* C7: each callback on an incumbent that is not Hamiltonian strictly
\* increases the cut counter and removes that incumbent from the feasible
\* assignments for good; the loop ends, in an incumbent that is a single
\* cycle of length n, in every solve of at most MaxCuts cuts.
C7_Convergence ==
    /\ [][(CallbackStep /\ ~IsHamiltonian(n, sol')) =>
             /\ subtours' > subtours
             /\ sol' \in SubtourFeasible
             /\ SubtourFeasible' \subseteq SubtourFeasible \ {sol'}]_vars
    /\ <>(subtours = MaxCuts \/ (pc = "done" /\ IsHamiltonian(n, best)))

\* C7's case: the loop has ended in a single cycle after two callbacks on
\* incumbents that were not Hamiltonian.
C7_Witness ==
    pc = "done" /\ IsHamiltonian(n, best) /\ subtours >= 1 /\ n >= 3

\* C13: across the callbacks of a solve and the final summary, the lower
\* bound written to the summary never decreases from one report to the
\* next, for a solver whose best bound is the optimum over the degree
\* constraints and the cuts injected so far.
C13_MonotonicBound ==
    [][(summary # Empty /\ summary' # Empty) =>
          summary'[1].bound >= summary[1].bound]_vars

\* C13's case: the final summary is written after a callback reported a
\* smaller bound, the one of the model before its first cut.
C13_Witness ==
    /\ pc = "done"
    /\ subtours >= 1
    /\ summary[1].bound > Max(0, Round(ObjBound(n, dist, EmptyBag)))

\* The node sets a cut can concern: at least 3 nodes, at most n / 2.
SubtourNodeSets(k) ==
    {S \in SUBSET Nodes(k) : Cardinality(S) >= 3 /\ 2 * Cardinality(S) <= k}

\* C18: with a solver that offers only incumbents satisfying every cut
\* injected so far, no cut is injected twice: the cuts the model holds have
\* pairwise different node sets, and the cut counter never exceeds the
\* number of node subsets of size at least 3 and at most n / 2.
C18_NoRepeatedCut ==
    /\ \A c \in BagToSet(cuts) : CopiesIn(c, cuts) = 1
    /\ \A c, d \in BagToSet(cuts) : c # d => Range(c.tour) # Range(d.tour)
    /\ subtours <= Cardinality(SubtourNodeSets(n))

\* C18's case: a second cut has been injected in a solve.
C18_Witness ==
    BagCardinality(cuts) = 2 /\ subtours = 2 /\ pc = "optimize"

\* C19: every cut injected by subtourelim on a degree-2 incumbent concerns
\* a cycle of k nodes with 3 <= k <= n / 2, so its right-hand side k - 1 is
\* at least 2, and its node list holds no node twice: the cut is built
\* before the reporting loop appends the closing node.
C19_CutShape ==
    \A c \in BagToSet(cuts) :
        /\ Len(c.tour) >= 3
        /\ 2 * Len(c.tour) <= n
        /\ c.rhs = Len(c.tour) - 1
        /\ c.rhs >= 2
        /\ Cardinality(Range(c.tour)) = Len(c.tour)
        /\ Range(c.tour) \subseteq Nodes(n)

\* C19's case: a callback has injected a cut for a cycle of the incumbent
\* and has drawn the cycles, closed.
C19_Witness ==
    /\ cuts # EmptyBag
    /\ sol # NoSolution
    /\ ~IsHamiltonian(n, sol)
    /\ Len(plot) = 2
    /\ \E c \in BagToSet(cuts) : plot[1] = Append(c.tour, c.tour[1])

\* A tuplelist of selected keys holds (i, j) exactly when it holds (j, i).
SymmetricKeys(edges) ==
    \A i, j \in Nodes(n) : IsIn(<<i, j>>, edges) <=> IsIn(<<j, i>>, edges)

\* C16: after the mirroring step both keys (i, j) and (j, i) of every pair
\* i # j exist and resolve to one variable; the degree constraint of node i
\* has n - 1 terms, the variables of the edges from i to each other node,
\* each once; the objective has one coefficient per unordered pair; and the
\* selection handed to subtour holds (i, j) exactly when it holds (j, i).
C16_Mirroring ==
    /\ \A i, j \in Nodes(n) :
          i # j =>
              /\ IsIn(<<i, j>>, VarKeys(n))
              /\ IsIn(<<j, i>>, VarKeys(n))
              /\ VarsDict(n)[<<i, j>>] = VarsDict(n)[<<j, i>>]
    /\ Range(VarKeys(n)) = DOMAIN VarsDict(n)
    /\ Cardinality({VarsDict(n)[key] : key \in DOMAIN VarsDict(n)})
          = (n * (n - 1)) \div 2
    /\ \A i \in Nodes(n) :
          /\ Len(SumTerms(n, i)) = n - 1
          /\ Range(SumTerms(n, i)) = {Var(i, j) : j \in Nodes(n) \ {i}}
          /\ sol # NoSolution =>
                Cardinality({x \in DOMAIN SumTerms(n, i) : SumTerms(n, i)[x] \in sol})
                    = Degree(sol, i)
    /\ \A v \in AllVars(n) :
          Cardinality({x \in DOMAIN KeysOf(dist) :
                          VarsDict(n)[KeysOf(dist)[x]] = v}) = 1
    /\ sol # NoSolution => SymmetricKeys(Selected(n, sol))
    /\ selected # Empty => SymmetricKeys(selected)

\* C16's case: a callback has read the selection of an incumbent of two
\* cycles, and the final selection has been read.
C16_Witness ==
    /\ pc = "assert"
    /\ selected # Empty
    /\ sol # NoSolution
    /\ subtours >= 1

-----------------------------------------------------------------------------
(* Claims about the events of the callback, under SpecEvents *)

\* A step in which the solver has called subtourelim at an event other than
\* a new incumbent.
OtherEventStep == pc = "optimize" /\ where' \in OtherEvents /\ where' # where

\* C17: a call of subtourelim for an event other than a new incumbent
\* (where # MIPSOL) leaves the cut counter, the constraint set and the
\* reporting sinks unchanged.
C17_OtherEventsNoEffect ==
    [][OtherEventStep => UNCHANGED <<subtours, cuts, summary, plot>>]_vars

\* C17's case: the callback was called at another event after a callback
\* on an incumbent had injected a cut and written to the sinks.
C17_Witness ==
    where \in OtherEvents /\ subtours >= 1 /\ summary # Empty /\ pc = "optimize"

\* C15: during solving the constraint set only grows: no callback removes
\* or changes a lazy constraint the model holds or widens what the degree
\* constraints and the cuts allow, the cut counter never decreases, and
\* after any sequence of callbacks, one after the other, the counter equals
\* the number of cuts in the constraint set.
C15_ConstraintsOnlyGrow ==
    /\ [](subtours = BagCardinality(cuts))
    /\ [][/\ \A c \in BagToSet(cuts) : CopiesIn(c, cuts') >= CopiesIn(c, cuts)
          /\ subtours' >= subtours
          /\ Feasible(n, cuts') \subseteq Feasible(n, cuts)]_vars

\* C15's case: two callbacks have injected a cut each, a callback on a
\* single cycle has run before the second, and one on another event after it.
C15_Witness ==
    /\ subtours = 2
    /\ BagCardinality(cuts) = 2
    /\ where \in OtherEvents
    /\ best # NoSolution

-----------------------------------------------------------------------------
(* Claims about calls from several worker contexts, under SpecPar *)

AllReturned == \A w \in Workers : ctx[w].at = "returned"

\* C12: when subtourelim is called from two or more worker contexts whose
\* steps interleave, no increment of the cut counter is lost: once every
\* call has returned, the counter equals the number of lazy constraints
\* injected, and the summary shows a counter that a number of injected cuts
\* has matched.
C12_SerializedCounter ==
    AllReturned =>
        /\ subtours = BagCardinality(cuts)
        /\ summary # Empty => summary[1].subtours \in 0..BagCardinality(cuts)

-----------------------------------------------------------------------------
(* Claims about a failing reporting sink, under SpecSink *)

\* C14: a failure of the reporting sink during a callback (the summary
\* update or the plot raising an error) does not abort the optimization:
\* the script never stops at m.optimize with the sink's exception.
C14_SinkFailureIsolated == pc # "raised"

====
